---- MODULE Spec2Model ----
(***************************************************************************)
(* Model of RICSStore (src/assets/js/rics-store.js): the catalogue load    *)
(* with its sample-data fallback, the search filter, the column sort and   *)
(* the table rendering.                                                    *)
(*                                                                         *)
(* JavaScript values are records [t, n, s]: t is the typeof tag            *)
(* ("undefined", "null", "boolean", "number", "string"), n the numeric     *)
(* payload, s the string payload.  Strings are sequences of UTF-16 code    *)
(* units.  Weights are held in hundredths (0.05 is 5).                     *)
(***************************************************************************)
EXTENDS Integers, Sequences, FiniteSets, TLC

VARIABLES pc, pathIdx, tbody, data, items, filteredItems, aliased,
          currentSort, listeners, searchValue, markup, lastOp

vars == <<pc, pathIdx, tbody, data, items, filteredItems, aliased,
          currentSort, listeners, searchValue, markup, lastOp>>

----------------------------------------------------------------------------
(* JavaScript values *)

Undef == [t |-> "undefined", n |-> 0, s |-> <<>>]
Null == [t |-> "null", n |-> 0, s |-> <<>>]
Num(k) == [t |-> "number", n |-> k, s |-> <<>>]
Str(cs) == [t |-> "string", n |-> 0, s |-> cs]
Bool(b) == [t |-> "boolean", n |-> IF b THEN 1 ELSE 0, s |-> <<>>]

\* ToBoolean, as used by ||, && and ?:
Truthy(v) ==
    CASE v.t = "number" -> v.n # 0
      [] v.t = "string" -> v.s # <<>>
      [] v.t = "boolean" -> v.n = 1
      [] OTHER -> FALSE

\* a || b
OrElse(a, b) == IF Truthy(a) THEN a ELSE b

\* v > 0 for the value types the catalogue holds in numeric fields
GreaterThanZero(v) ==
    CASE v.t = "number" -> v.n > 0
      [] v.t = "boolean" -> v.n = 1
      [] OTHER -> FALSE

\* v == null
IsNullish(v) == v.t \in {"undefined", "null"}

----------------------------------------------------------------------------
(* Strings *)

IsSpace(c) == c = 32 \/ c \in 9..13

LowerChar(c) == IF c \in 65..90 THEN c + 32 ELSE c

\* String.prototype.toLowerCase
ToLowerCase(cs) == [i \in 1..Len(cs) |-> LowerChar(cs[i])]

RECURSIVE TrimStart(_)
TrimStart(cs) ==
    IF cs # <<>> /\ IsSpace(Head(cs)) THEN TrimStart(Tail(cs)) ELSE cs

RECURSIVE TrimEnd(_)
TrimEnd(cs) ==
    IF cs # <<>> /\ IsSpace(cs[Len(cs)])
    THEN TrimEnd(SubSeq(cs, 1, Len(cs) - 1))
    ELSE cs

\* String.prototype.trim
Trim(cs) == TrimEnd(TrimStart(cs))

\* String.prototype.includes
Includes(hay, needle) ==
    \E i \in 0..(Len(hay) - Len(needle)) :
        SubSeq(hay, i + 1, i + Len(needle)) = needle

\* a < b on strings: code-unit lexicographic order
RECURSIVE StrLess(_, _)
StrLess(a, b) ==
    IF b = <<>> THEN FALSE
    ELSE IF a = <<>> THEN TRUE
    ELSE IF Head(a) < Head(b) THEN TRUE
    ELSE IF Head(a) > Head(b) THEN FALSE
    ELSE StrLess(Tail(a), Tail(b))

\* String.prototype.replace(/c/g, rep)
RECURSIVE ReplaceAll(_, _, _)
ReplaceAll(cs, c, rep) ==
    IF cs = <<>> THEN <<>>
    ELSE (IF Head(cs) = c THEN rep ELSE <<Head(cs)>>)
         \o ReplaceAll(Tail(cs), c, rep)

\* decimal digits of a natural number
RECURSIVE Digits(_)
Digits(k) ==
    IF k < 10 THEN <<48 + k>> ELSE Digits(k \div 10) \o <<48 + (k % 10)>>

\* Number -> string for a value held in hundredths: 100 "1", 10 "0.1", 5 "0.05"
HundredthsText(k) ==
    LET whole == Digits(k \div 100)
        frac == k % 100
    IN  IF frac = 0 THEN whole
        ELSE IF frac % 10 = 0 THEN whole \o <<46, 48 + (frac \div 10)>>
        ELSE whole \o <<46, 48 + (frac \div 10), 48 + (frac % 10)>>

----------------------------------------------------------------------------
(* The catalogue *)

\* number of candidate paths tried by loadItems
NumPaths == 4

\* largest number of entries in a fetched mapping
MaxItems == 3

\* 'Misc'
Misc == <<77, 105, 115, 99>>

\* 'Unlimited'
Unlimited == <<85, 110, 108, 105, 109, 105, 116, 101, 100>>

NoFields ==
    [isNull |-> FALSE, CustomName |-> Undef, BasePrice |-> Undef,
     Category |-> Undef, Weight |-> Undef, QuantityLimit |-> Undef,
     LimitMode |-> Undef, Mod |-> Undef, Enabled |-> Undef,
     KarmaType |-> Undef]

Entry(key, fields) ==
    [f \in (DOMAIN NoFields) \cup {"defname"} |->
        IF f = "defname" THEN key
        ELSE IF f \in DOMAIN fields THEN fields[f] ELSE NoFields[f]]

\* Entries a StoreItems.json may hold.  Keys are not integer-like, so
\* Object.entries yields them in insertion order.
Pool ==
    { \* "ab": {BasePrice: 5, Category: "B", Mod: "a", Weight: 0.05,
      \*        Enabled: null}
      Entry(<<97, 98>>, [BasePrice |-> Num(5), Category |-> Str(<<66>>),
                         Mod |-> Str(<<97>>), Weight |-> Num(5),
                         Enabled |-> Null]),
      \* "Ba": {CustomName: "AB", BasePrice: 5, Weight: "<b", KarmaType: "<&"}
      Entry(<<66, 97>>, [CustomName |-> Str(<<65, 66>>), BasePrice |-> Num(5),
                         Weight |-> Str(<<60, 98>>),
                         KarmaType |-> Str(<<60, 38>>)]),
      \* "c": {CustomName: "a&", BasePrice: 9, Category: "a>", Mod: "B",
      \*       QuantityLimit: 2, LimitMode: "'\"", Enabled: true}
      Entry(<<99>>, [CustomName |-> Str(<<97, 38>>), BasePrice |-> Num(9),
                     Category |-> Str(<<97, 62>>), Mod |-> Str(<<66>>),
                     QuantityLimit |-> Num(2),
                     LimitMode |-> Str(<<39, 34>>), Enabled |-> Bool(TRUE)]),
      \* "z": {BasePrice: 0}
      Entry(<<122>>, [BasePrice |-> Num(0)]),
      \* "d": {BasePrice: 3, Enabled: false}
      Entry(<<100>>, [BasePrice |-> Num(3), Enabled |-> Bool(FALSE)]),
      \* "e": {BasePrice: -2}
      Entry(<<101>>, [BasePrice |-> Num(-2)]),
      \* "u": {}
      Entry(<<117>>, << >>),
      \* "n": null
      Entry(<<110>>, [isNull |-> TRUE]) }

\* what response.json() can resolve to
NullContent == [t |-> "null", n |-> 0, entries |-> <<>>]
BoolContent(b) == [t |-> "boolean", n |-> IF b THEN 1 ELSE 0, entries |-> <<>>]
ObjectContent(es) == [t |-> "object", n |-> 0, entries |-> es]

Mappings ==
    { es \in UNION { [1..k -> Pool] : k \in 0..MaxItems } :
        \A i, j \in DOMAIN es : i # j => es[i].defname # es[j].defname }

Contents ==
    {NullContent, BoolContent(FALSE), BoolContent(TRUE)}
        \cup { ObjectContent(es) : es \in Mappings }

\* !data is false
DataTruthy(d) == d.t = "object" \/ (d.t = "boolean" /\ d.n = 1)

\* .map(([defname, itemData]) => ({...}))
ConvertEntry(e) ==
    [defname |-> Str(e.defname),
     name |-> OrElse(e.CustomName, Str(e.defname)),
     price |-> OrElse(e.BasePrice, Num(0)),
     category |-> OrElse(e.Category, Str(Misc)),
     weight |-> OrElse(e.Weight, Num(0)),
     quantityLimit |-> OrElse(e.QuantityLimit, Num(0)),
     limitMode |-> e.LimitMode,
     mod |-> e.Mod,
     enabled |-> Bool(e.Enabled # Bool(FALSE)),
     karmaType |-> e.KarmaType]

\* variant: the price test is dropped
KeepItemEnabledOnly(item) == Truthy(item.enabled)

\* .filter(item => item.enabled && item.price > 0)
KeepItem(item) == Truthy(item.enabled) /\ GreaterThanZero(item.price)

\* itemData.CustomName on a null itemData raises a TypeError
ProcessThrows(d) == \E i \in DOMAIN d.entries : d.entries[i].isNull

SampleItem(defname, name, price, category, weight, quantityLimit) ==
    [defname |-> Str(defname), name |-> Str(name), price |-> Num(price),
     category |-> Str(category), weight |-> Num(weight),
     quantityLimit |-> Num(quantityLimit),
     limitMode |-> Str(<<79, 110, 101, 83, 116, 97, 99, 107>>),
     mod |-> Str(<<67, 111, 114, 101>>),
     enabled |-> Bool(TRUE), karmaType |-> Null]

\* loadSampleData: TextBook, MedicineHerbal, Pemmican
LoadSampleData ==
    << SampleItem(<<84, 101, 120, 116, 66, 111, 111, 107>>,
                  <<84, 101, 120, 116, 98, 111, 111, 107>>,
                  267, <<66, 111, 111, 107, 115>>, 100, 5),
       SampleItem(<<77, 101, 100, 105, 99, 105, 110, 101,
                    72, 101, 114, 98, 97, 108>>,
                  <<72, 101, 114, 98, 97, 108, 32,
                    77, 101, 100, 105, 99, 105, 110, 101>>,
                  150, <<77, 101, 100, 105, 99, 97, 108>>, 10, 25),
       SampleItem(<<80, 101, 109, 109, 105, 99, 97, 110>>,
                  <<80, 101, 109, 109, 105, 99, 97, 110>>,
                  80, <<70, 111, 111, 100>>, 5, 100) >>

\* variant: a null entry is skipped instead of aborting the conversion
LoadItemsSkipNull(d) ==
    IF ~DataTruthy(d)
    THEN LoadSampleData
    ELSE LET NotNull(e) == ~e.isNull
             live == SelectSeq(d.entries, NotNull)
         IN  SelectSeq([i \in DOMAIN live |-> ConvertEntry(live[i])], KeepItem)

\* the value of this.items when loadItems returns, given the fetched data
LoadItems(d) ==
    IF ~DataTruthy(d) \/ ProcessThrows(d)
    THEN LoadSampleData
    ELSE SelectSeq([i \in DOMAIN d.entries |-> ConvertEntry(d.entries[i])],
                   KeepItem)

\* variant: this.filteredItems = this.items
SpreadAliasesShared == TRUE

\* [...this.items] is a fresh array: filteredItems does not alias items
SpreadAliases == FALSE

----------------------------------------------------------------------------
(* Sorting *)

\* the columns a th[data-sort] header can name
SortFields == {"name", "price", "mod"}

\* if (aValue == null) aValue = ''
Coerce(v) == IF IsNullish(v) THEN Str(<<>>) ELSE v

\* if (typeof aValue === 'string') aValue = aValue.toLowerCase()
SortKey(item, field) ==
    LET v == Coerce(item[field])
    IN  IF v.t = "string" THEN Str(ToLowerCase(v.s)) ELSE v

\* aValue < bValue
Less(x, y) ==
    IF x.t = "string" /\ y.t = "string" THEN StrLess(x.s, y.s) ELSE x.n < y.n

\* the comparator handed to Array.prototype.sort
Compare(a, b, field, direction) ==
    LET aValue == SortKey(a, field)
        bValue == SortKey(b, field)
    IN  IF Less(aValue, bValue) THEN (IF direction = "asc" THEN -1 ELSE 1)
        ELSE IF Less(bValue, aValue) THEN (IF direction = "asc" THEN 1 ELSE -1)
        ELSE 0

\* variant: an element goes in front of the elements it ties with
RECURSIVE InsertBeforeTies(_, _, _, _)
InsertBeforeTies(x, sorted, field, direction) ==
    IF sorted = <<>> THEN <<x>>
    ELSE IF Compare(Head(sorted), x, field, direction) >= 0
         THEN <<x>> \o sorted
         ELSE <<Head(sorted)>>
              \o InsertBeforeTies(x, Tail(sorted), field, direction)

\* Array.prototype.sort is stable: an element goes behind every element
\* that does not compare greater than it
RECURSIVE InsertStable(_, _, _, _)
InsertStable(x, sorted, field, direction) ==
    IF sorted = <<>> THEN <<x>>
    ELSE IF Compare(Head(sorted), x, field, direction) > 0
         THEN <<x>> \o sorted
         ELSE <<Head(sorted)>> \o InsertStable(x, Tail(sorted), field, direction)

RECURSIVE SortInto(_, _, _, _)
SortInto(sorted, rest, field, direction) ==
    IF rest = <<>> THEN sorted
    ELSE SortInto(InsertStable(Head(rest), sorted, field, direction),
                  Tail(rest), field, direction)

ArraySort(arr, field, direction) == SortInto(<<>>, arr, field, direction)

\* variant: a click never flips the direction
NextSortNoFlip(sort, field, changeDirection) ==
    IF changeDirection THEN [field |-> field, direction |-> "asc"] ELSE sort

\* sortItems, the update of this.currentSort
NextSort(sort, field, changeDirection) ==
    IF changeDirection
    THEN IF sort.field = field
         THEN [sort EXCEPT !.direction = IF @ = "asc" THEN "desc" ELSE "asc"]
         ELSE [field |-> field, direction |-> "asc"]
    ELSE sort

\* sortItems: the new sort state and the array after the in-place sort
SortItems(arr, sort, field, changeDirection) ==
    LET newSort == NextSort(sort, field, changeDirection)
    IN  [sort |-> newSort, view |-> ArraySort(arr, field, newSort.direction)]

----------------------------------------------------------------------------
(* Filtering *)

\* the raw values of the search box
SearchTerms ==
    { <<32, 32>>,           \* "  "
      <<32, 66, 97, 32>>,   \* " Ba "
      <<66>>,               \* "B"
      <<77, 101, 100>> }    \* "Med"

\* searchTerm.toLowerCase().trim()
NormalizeTerm(searchTerm) == Trim(ToLowerCase(searchTerm))

\* variant: the defname clause is missing
MatchesNoDefname(item, term) ==
    \/ Includes(ToLowerCase(item.name.s), term)
    \/ Truthy(item.category) /\ Includes(ToLowerCase(item.category.s), term)
    \/ Truthy(item.mod) /\ Includes(ToLowerCase(item.mod.s), term)

\* the predicate of this.items.filter(...)
Matches(item, term) ==
    \/ Includes(ToLowerCase(item.name.s), term)
    \/ Truthy(item.category) /\ Includes(ToLowerCase(item.category.s), term)
    \/ Truthy(item.mod) /\ Includes(ToLowerCase(item.mod.s), term)
    \/ Truthy(item.defname) /\ Includes(ToLowerCase(item.defname.s), term)

\* filterItems, the array assigned to this.filteredItems before the re-sort
FilterMatch(allItems, searchTerm) ==
    LET term == NormalizeTerm(searchTerm)
        Test(item) == Matches(item, term)
    IN  IF term = <<>> THEN allItems ELSE SelectSeq(allItems, Test)

\* variant: the re-sort toggles like a click
FilterItemsToggling(allItems, sort, searchTerm) ==
    SortItems(FilterMatch(allItems, searchTerm), sort, sort.field, TRUE)

\* filterItems: this.sortItems(this.currentSort.field, false)
FilterItems(allItems, sort, searchTerm) ==
    SortItems(FilterMatch(allItems, searchTerm), sort, sort.field, FALSE)

----------------------------------------------------------------------------
(* Rendering *)

\* escapeHtml
EscapeHtml(unsafe) ==
    IF unsafe.t # "string" THEN unsafe
    ELSE Str(ReplaceAll(ReplaceAll(ReplaceAll(ReplaceAll(ReplaceAll(unsafe.s,
            38, <<38, 97, 109, 112, 59>>),          \* & -> &amp;
            60, <<38, 108, 116, 59>>),              \* < -> &lt;
            62, <<38, 103, 116, 59>>),              \* > -> &gt;
            34, <<38, 113, 117, 111, 116, 59>>),    \* " -> &quot;
            39, <<38, 35, 48, 51, 57, 59>>))        \* ' -> &#039;

\* ${value} inside the template literal
Interpolate(v) == IF v.t = "string" THEN v.s ELSE Digits(v.n)

\* ${item.weight}
InterpolateWeight(v) == IF v.t = "string" THEN v.s ELSE HundredthsText(v.n)

Fragment(field, text) == [field |-> field, text |-> text]

Optional(field, v) ==
    IF Truthy(v) THEN <<Fragment(field, Interpolate(EscapeHtml(v)))>> ELSE <<>>

\* the values the template inserts into one <tr>, in template order
Row(item) ==
    <<Fragment("name", Interpolate(EscapeHtml(item.name)))>>
    \o Optional("mod", item.mod)
    \o <<Fragment("price", Interpolate(item.price))>>
    \o Optional("karmaType", item.karmaType)
    \o <<Fragment("category", Interpolate(EscapeHtml(item.category))),
         Fragment("weight", InterpolateWeight(item.weight)),
         Fragment("quantityLimit",
                  IF GreaterThanZero(item.quantityLimit)
                  THEN Interpolate(item.quantityLimit) ELSE Unlimited)>>
    \o Optional("limitMode", item.limitMode)

StaticMarkup == [kind |-> "static", rows |-> <<>>]

\* renderItems, the value assigned to tbody.innerHTML
RenderItems(view) ==
    IF Len(view) = 0
    THEN [kind |-> "placeholder", rows |-> <<>>]
    ELSE [kind |-> "rows", rows |-> [i \in DOMAIN view |-> Row(view[i])]]

----------------------------------------------------------------------------
(* The store *)

DefaultSort == [field |-> "name", direction |-> "asc"]

\* the last listener that ran: its kind, the field it sorted by, the sort
\* state and the array contents when .sort() was entered, and, for a click,
\* whether it repeats the click before it and whether the first click of
\* that pair found its field already sorted ascending
NoOp == [kind |-> "none", field |-> "", sortBefore |-> DefaultSort,
         presort |-> <<>>, repeat |-> FALSE, fromAsc |-> FALSE]

Init ==
    /\ pc = "fetch"
    /\ pathIdx = 1
    /\ tbody \in BOOLEAN
    /\ data = NullContent
    /\ items = <<>>
    /\ filteredItems = <<>>
    /\ aliased = FALSE
    /\ currentSort = DefaultSort
    /\ listeners = FALSE
    /\ searchValue = <<>>
    /\ markup = StaticMarkup
    /\ lastOp = NoOp

\* the rest of loadItems once the path loop is left with data = d
FinishLoad(d) ==
    /\ data' = d
    /\ items' = LoadItems(d)
    /\ filteredItems' = LoadItems(d)
    /\ aliased' = SpreadAliases
    /\ pc' = "loaded"
    /\ UNCHANGED <<tbody, currentSort, listeners, searchValue, markup, lastOp>>

\* one turn of the path loop of loadItems: fetch(path) rejects, answers
\* not-ok, answers a body json() rejects, or answers parsed content
FetchPath ==
    /\ pc = "fetch"
    /\ \/ \E failure \in {"throws", "notok", "badjson"} :
            IF pathIdx < NumPaths
            THEN /\ pathIdx' = pathIdx + 1
                 /\ UNCHANGED <<pc, tbody, data, items, filteredItems, aliased,
                                currentSort, listeners, searchValue, markup,
                                lastOp>>
            ELSE /\ pathIdx' = pathIdx
                 /\ FinishLoad(data)
       \/ \E content \in Contents :
            /\ pathIdx' = pathIdx
            /\ FinishLoad(content)

\* renderItems: tbody is the result of getElementById('items-tbody');
\* assigning innerHTML on null raises a TypeError
RenderThrows == ~tbody

\* init after await this.loadItems(): renderItems, then setupEventListeners;
\* the local data of loadItems is gone
InitContinue ==
    /\ pc = "loaded"
    /\ IF RenderThrows
       THEN /\ pc' = "crashed"
            /\ UNCHANGED <<markup, listeners>>
       ELSE /\ markup' = RenderItems(filteredItems)
            /\ listeners' = TRUE
            /\ pc' = "ready"
    /\ data' = NullContent
    /\ UNCHANGED <<pathIdx, tbody, items, filteredItems, aliased, currentSort,
                   searchValue, lastOp>>

\* the 'input' listener of the search box: filterItems(e.target.value)
FilterInput ==
    /\ listeners
    /\ \E searchTerm \in SearchTerms :
         LET matched == FilterMatch(items, searchTerm)
             alias == IF NormalizeTerm(searchTerm) = <<>>
                      THEN SpreadAliases ELSE FALSE
             r == FilterItems(items, currentSort, searchTerm)
         IN  /\ searchValue' = searchTerm
             /\ filteredItems' = r.view
             /\ currentSort' = r.sort
             /\ aliased' = alias
             /\ items' = IF alias THEN r.view ELSE items
             /\ markup' = IF RenderThrows THEN markup ELSE RenderItems(r.view)
             /\ lastOp' = [kind |-> "filter", field |-> currentSort.field,
                           sortBefore |-> currentSort, presort |-> matched,
                           repeat |-> FALSE, fromAsc |-> FALSE]
    /\ UNCHANGED <<pc, pathIdx, tbody, data, listeners>>

\* the 'click' listener of a th[data-sort]: sortItems(header.dataset.sort)
SortClick ==
    /\ listeners
    /\ \E field \in SortFields :
         LET r == SortItems(filteredItems, currentSort, field, TRUE)
             again == lastOp.kind = "sort" /\ lastOp.field = field
         IN  /\ filteredItems' = r.view
             /\ currentSort' = r.sort
             /\ items' = IF aliased THEN r.view ELSE items
             /\ markup' = IF RenderThrows THEN markup ELSE RenderItems(r.view)
             /\ lastOp' = [kind |-> "sort", field |-> field,
                           sortBefore |-> currentSort,
                           presort |-> filteredItems,
                           repeat |-> again,
                           fromAsc |->
                              IF again
                              THEN lastOp.sortBefore =
                                     [field |-> field, direction |-> "asc"]
                              ELSE FALSE]
    /\ UNCHANGED <<pc, pathIdx, tbody, data, listeners, aliased, searchValue>>

Next == FetchPath \/ InitContinue \/ FilterInput \/ SortClick

Spec == Init /\ [][Next]_vars

----------------------------------------------------------------------------
(* Properties *)

Loaded == pc \in {"loaded", "ready", "crashed"}

\* view is in non-decreasing (asc) or non-increasing (desc) order of field
Ordered(view, field, direction) ==
    \A i, j \in DOMAIN view :
        i < j =>
            IF direction = "asc"
            THEN ~Less(SortKey(view[j], field), SortKey(view[i], field))
            ELSE ~Less(SortKey(view[i], field), SortKey(view[j], field))

StrictlyOrdered(view, field) ==
    \A i, j \in DOMAIN view :
        i < j => SortKey(view[i], field) # SortKey(view[j], field)

Occurrences(seq, x) == Cardinality({k \in DOMAIN seq : seq[k] = x})

Position(seq, x) == CHOOSE k \in DOMAIN seq : seq[k] = x

\* the mapping loadItems converted: parsed, truthy, every entry an object
MappingObtained == pc = "loaded" /\ DataTruthy(data) /\ ~ProcessThrows(data)

\* BasePrice, 0 when missing
RawPrice(e) == IF e.BasePrice.t = "number" THEN e.BasePrice.n ELSE 0

\* C1: when load has converted a mapping, items holds exactly one record
\* for each entry whose Enabled is not false and whose price is > 0, no
\* record with price <= 0 or enabled = false, and the filtered view holds
\* the same records.
C1_LoadKeepsEnabledPriced ==
    MappingObtained =>
        /\ \A i \in DOMAIN data.entries :
              LET e == data.entries[i]
                  wanted == e.Enabled # Bool(FALSE) /\ RawPrice(e) > 0
              IN  Cardinality({k \in DOMAIN items :
                                  items[k].defname = Str(e.defname)})
                    = IF wanted THEN 1 ELSE 0
        /\ \A k \in DOMAIN items :
              /\ items[k].price.n > 0
              /\ items[k].enabled = Bool(TRUE)
              /\ \E i \in DOMAIN data.entries :
                    Str(data.entries[i].defname) = items[k].defname
        /\ filteredItems = items

C1_Witness ==
    /\ MappingObtained
    /\ Len(items) >= 2
    /\ Len(items) < Len(data.entries)

\* term is a case-insensitive substring of the field; an absent field
\* never matches
ContainsCI(v, term) == v.t = "string" /\ Includes(ToLowerCase(v.s), term)

\* C2: after load and any sequence of filter and sort operations the view
\* holds, each once, exactly the records of items in which the last applied
\* term (lower-cased, trimmed; empty before any filter) occurs in
\* name, category, mod or defname.
C2_ViewIsLastTermMatches ==
    Loaded =>
        LET term == Trim(ToLowerCase(searchValue))
        IN  /\ \A k \in DOMAIN items :
                  Occurrences(filteredItems, items[k])
                    = IF \/ ContainsCI(items[k].name, term)
                         \/ ContainsCI(items[k].category, term)
                         \/ ContainsCI(items[k].mod, term)
                         \/ ContainsCI(items[k].defname, term)
                      THEN 1 ELSE 0
            /\ \A i \in DOMAIN filteredItems :
                  Occurrences(items, filteredItems[i]) = 1

C2_Witness ==
    /\ pc = "ready"
    /\ lastOp.kind = "sort"
    /\ Len(filteredItems) >= 1
    /\ Len(filteredItems) < Len(items)
    /\ filteredItems # lastOp.presort

\* C3 as stated: a second click in a row on the same column finds the view
\* ascending after the first click and leaves it descending.
C3_TwiceAscThenDesc ==
    (lastOp.kind = "sort" /\ lastOp.repeat) =>
        /\ Ordered(lastOp.presort, lastOp.field, "asc")
        /\ Ordered(filteredItems, lastOp.field, "desc")

\* C3 amended: two clicks in a row on column f yield ascending then
\* descending order, except when the sort state before the first click was
\* already (f, asc): then they yield descending then ascending order.
C3_TwiceTogglesFromState ==
    (lastOp.kind = "sort" /\ lastOp.repeat) =>
        IF lastOp.fromAsc
        THEN /\ Ordered(lastOp.presort, lastOp.field, "desc")
             /\ Ordered(filteredItems, lastOp.field, "asc")
             /\ currentSort = [field |-> lastOp.field, direction |-> "asc"]
        ELSE /\ Ordered(lastOp.presort, lastOp.field, "asc")
             /\ Ordered(filteredItems, lastOp.field, "desc")
             /\ currentSort = [field |-> lastOp.field, direction |-> "desc"]

C3_Witness ==
    /\ lastOp.kind = "sort"
    /\ lastOp.repeat
    /\ ~lastOp.fromAsc
    /\ Len(filteredItems) >= 2
    /\ StrictlyOrdered(filteredItems, lastOp.field)

\* C4: filter leaves the sort field and direction as they were, and the
\* view it produces is ordered by that field in that direction.
C4_FilterKeepsSort ==
    lastOp.kind = "filter" =>
        /\ currentSort = lastOp.sortBefore
        /\ Ordered(filteredItems, currentSort.field, currentSort.direction)

C4_Witness ==
    /\ lastOp.kind = "filter"
    /\ currentSort.direction = "desc"
    /\ Len(filteredItems) >= 2
    /\ filteredItems # lastOp.presort

\* C5: once load has completed, no filter or sort step changes items.
C5_ItemsImmutable == [][Loaded => items' = items]_vars

C5_Witness ==
    /\ pc = "ready"
    /\ Trim(ToLowerCase(searchValue)) = <<>>
    /\ lastOp.kind = "sort"
    /\ Len(filteredItems) = Len(items)
    /\ filteredItems # items

\* C6: in every loaded state, from the one right after load on, the view
\* is ordered by the current sort field in the current sort direction.
C6_ViewOrderedBySortState ==
    pc \in {"loaded", "ready"} =>
        Ordered(filteredItems, currentSort.field, currentSort.direction)

\* the three built-in records, in order
IsSampleSet(seq) ==
    /\ Len(seq) = 3
    /\ seq[1].defname = Str(<<84, 101, 120, 116, 66, 111, 111, 107>>)
    /\ seq[1].price = Num(267)
    /\ seq[2].defname = Str(<<77, 101, 100, 105, 99, 105, 110, 101,
                              72, 101, 114, 98, 97, 108>>)
    /\ seq[2].price = Num(150)
    /\ seq[3].defname = Str(<<80, 101, 109, 109, 105, 99, 97, 110>>)
    /\ seq[3].price = Num(80)

\* C7: when no path yields usable content (all fail, or the content is
\* null/falsy, or converting it throws), load still returns, items is the
\* sample set and so is the view.
C7_FallbackToSample ==
    (pc = "loaded" /\ (~DataTruthy(data) \/ ProcessThrows(data))) =>
        /\ IsSampleSet(items)
        /\ filteredItems = items

C7_Witness ==
    /\ pc = "loaded"
    /\ ProcessThrows(data)
    /\ Len(data.entries) >= 2
    /\ ~data.entries[1].isNull

\* C8: a missing table body only aborts that render: once init has passed
\* its first render the search and sort handlers are attached.
C8_StartupSurvivesMissingTarget ==
    pc \in {"ready", "crashed"} => listeners

\* no raw <, >, " or ', and every & starts one of the five entities
IsEscaped(cs) ==
    \A i \in DOMAIN cs :
        /\ cs[i] \notin {60, 62, 34, 39}
        /\ cs[i] = 38 =>
              \E entity \in { <<38, 97, 109, 112, 59>>, <<38, 108, 116, 59>>,
                              <<38, 103, 116, 59>>,
                              <<38, 113, 117, 111, 116, 59>>,
                              <<38, 35, 48, 51, 57, 59>> } :
                  /\ i + Len(entity) - 1 <= Len(cs)
                  /\ SubSeq(cs, i, i + Len(entity) - 1) = entity

\* C9: every value render inserts into the markup from a record of the
\* view is escaped: no raw &, <, >, " or ' from record data reaches it.
C9_MarkupEscaped ==
    \A r \in DOMAIN markup.rows :
        \A k \in DOMAIN markup.rows[r] : IsEscaped(markup.rows[r][k].text)

\* C10: after every sort, by click or by filter, records whose sort keys
\* compare equal stand in the order they had in the array handed to the
\* sort; for a filter that array is in load order.
C10_SortIsStable ==
    lastOp.kind \in {"sort", "filter"} =>
        /\ \A i, j \in DOMAIN filteredItems :
              (/\ i < j
               /\ Compare(filteredItems[i], filteredItems[j], lastOp.field,
                          currentSort.direction) = 0)
                 => Position(lastOp.presort, filteredItems[i])
                      < Position(lastOp.presort, filteredItems[j])
        /\ lastOp.kind = "filter" =>
              \A i, j \in DOMAIN lastOp.presort :
                  i < j => Position(items, lastOp.presort[i])
                             < Position(items, lastOp.presort[j])

C10_Witness ==
    /\ lastOp.kind = "sort"
    /\ currentSort.direction = "desc"
    /\ \E i, j \in DOMAIN filteredItems :
          /\ i < j
          /\ Compare(filteredItems[i], filteredItems[j], lastOp.field,
                     "desc") = 0
          /\ Position(items, filteredItems[i])
               > Position(items, filteredItems[j])

====
